---- MODULE Spec2Model ----
(***************************************************************************)
(* Model of krh_args_parser: the `parse` function of src/src/lib.rs, a     *)
(* command-line tokenizer that walks a peekable iterator of tokens and     *)
(* dispatches each to the `long`, `short`, `argument` and `subcommand`     *)
(* methods of an application-supplied ArgumentParser.  A token is a        *)
(* sequence of one-character strings.  The ArgumentParser implementation   *)
(* is the environment: it may invoke the `next` closure it is handed any   *)
(* number of times and then return Ok or Err.                              *)
(***************************************************************************)
EXTENDS Integers, Sequences, FiniteSets, TLC

\* Bounds of the model: the size of the argument vector, each token counting
\* its characters and one terminator, and the number of times the handlers
\* invoke a `next` closure in one parse.
MaxArgvBytes == 7
MaxPulls == 2

\* The characters tokens are built from: the two that parse looks at and
\* one ordinary character.
Chars == {"-", "=", "a"}

Strs(n) == UNION {[1..k -> Chars] : k \in 0..n}

RECURSIVE InputsOf(_)
\* Every token sequence that fits in c bytes.
InputsOf(c) ==
    IF c <= 0 THEN {<<>>}
    ELSE {<<>>} \cup UNION {{<<t>> \o r : r \in InputsOf(c - Len(t) - 1)} : t \in Strs(c - 1)}

Inputs == InputsOf(MaxArgvBytes)

VARIABLES
    input,     \* the token sequence given to parse (never changes)
    iter,      \* the tokens the underlying iterator has not produced yet
    peeked,    \* Peekable's buffer: <<>>, <<Some(t)>> or <<None>>
    pulled,    \* number of tokens pulled from the underlying iterator
    consumed,  \* number of tokens args.next() has returned
    pc,        \* "start", "scan", "handler", "subcommand", "done", "failed"
    arg,       \* the token the outer loop is dispatching
    ci,        \* position in the short cluster of the character dispatched
    taken,     \* the `taken` flag of an inline-value closure
    calls,     \* every handler call made so far
    sups,      \* every invocation of a `next` closure so far
    rets,      \* what each handler call returned
    result     \* what parse returned

vars == <<input, iter, peeked, pulled, consumed, pc, arg, ci, taken,
          calls, sups, rets, result>>

----------------------------------------------------------------------------
\* Strings.

Some(t) == [some |-> TRUE, v |-> t]
None == [some |-> FALSE, v |-> <<>>]

Drop(t, n) == SubSeq(t, n + 1, Len(t))

\* str::starts_with / the test of str::strip_prefix
StartsWith(t, p) == Len(t) >= Len(p) /\ SubSeq(t, 1, Len(p)) = p

HasEq(s) == \E i \in 1..Len(s) : s[i] = "="

\* position of the first '=' of s
FirstEq(s) == CHOOSE i \in 1..Len(s) : s[i] = "=" /\ \A j \in 1..(i - 1) : s[j] # "="

\* str::split_once('='), for an s that contains '='
SplitBefore(s) == SubSeq(s, 1, FirstEq(s) - 1)
SplitAfter(s) == Drop(s, FirstEq(s))

Last(q) == q[Len(q)]

----------------------------------------------------------------------------
\* Error messages: the kind of the message and the values formatted into it.

Err(k, a, b) == [kind |-> k, a |-> a, b |-> b]
NoErr == Err("none", <<>>, <<>>)
EmptyInput == Err("No arguments given", <<>>, <<>>)
UnusedInlineValue(flag, next) == Err("Flag was given argument without using it", flag, next)
ExpectedValueGotFlag(f) == Err("Expected value, got flag", f, <<>>)
MissingValueLong == Err("Expected value but no arguments were left", <<>>, <<>>)
MissingValueShort(c) == Err("Expected value for c but no arguments were left", <<c>>, <<>>)
CannotTakeValueMidCluster(c) == Err("Could not get argument while in short chain", <<c>>, <<>>)
NoArgumentNext == Err("No argument next", <<>>, <<>>)
HandlerError == Err("handler error", <<>>, <<>>)

----------------------------------------------------------------------------
\* The Peekable iterator `args`.

\* PeekablePeek pulling from the underlying iterator although a token is buffered.
PeekablePeekPullsAgain(it, pk, n) ==
    IF it = <<>> THEN [iter |-> it, peeked |-> (IF pk # <<>> THEN pk ELSE <<None>>), pulled |-> n]
    ELSE [iter |-> Tail(it), peeked |-> <<Some(Head(it))>>, pulled |-> n + 1]

\* Peekable::peek: fills the buffer from the underlying iterator if empty.
PeekablePeek(it, pk, n) ==
    IF pk # <<>> THEN [iter |-> it, peeked |-> pk, pulled |-> n]
    ELSE IF it = <<>> THEN [iter |-> it, peeked |-> <<None>>, pulled |-> n]
    ELSE [iter |-> Tail(it), peeked |-> <<Some(Head(it))>>, pulled |-> n + 1]

\* PeekableNext returning the buffered item without emptying the buffer.
PeekableNextKeepsBuffer(it, pk, n) ==
    IF pk # <<>> THEN [iter |-> it, peeked |-> pk, pulled |-> n, item |-> pk[1]]
    ELSE IF it = <<>> THEN [iter |-> it, peeked |-> <<>>, pulled |-> n, item |-> None]
    ELSE [iter |-> Tail(it), peeked |-> <<>>, pulled |-> n + 1, item |-> Some(Head(it))]

\* Peekable::next: takes the buffered item if there is one.
PeekableNext(it, pk, n) ==
    IF pk # <<>> THEN [iter |-> it, peeked |-> <<>>, pulled |-> n, item |-> pk[1]]
    ELSE IF it = <<>> THEN [iter |-> it, peeked |-> <<>>, pulled |-> n, item |-> None]
    ELSE [iter |-> Tail(it), peeked |-> <<>>, pulled |-> n + 1, item |-> Some(Head(it))]

\* What the Peekable still yields: the buffered token, then the rest.
PeekableRest(it, pk) ==
    IF pk # <<>> /\ pk[1].some THEN <<pk[1].v>> \o it
    ELSE IF pk # <<>> THEN <<>>
    ELSE it

----------------------------------------------------------------------------
\* Handler calls and `next` closures.

\* Classify with the two strip_prefix tests in the wrong order.
ClassifyShortFirst(t) ==
    IF StartsWith(t, <<"-">>) THEN "short"
    ELSE IF StartsWith(t, <<"-", "-">>) THEN "long"
    ELSE "positional"

\* Classify taking a '-' anywhere in the token for a short cluster.
ClassifyContainsDash(t) ==
    IF StartsWith(t, <<"-", "-">>) THEN "long"
    ELSE IF \E i \in 1..Len(t) : t[i] = "-" THEN "short"
    ELSE "positional"

\* The kind of a token: the strip_prefix tests of the outer loop, in order.
Classify(t) ==
    IF StartsWith(t, <<"-", "-">>) THEN "long"
    ELSE IF StartsWith(t, <<"-">>) THEN "short"
    ELSE "positional"

\* LongCall splitting at the last '=' (rsplit_once) instead of the first.
LongCallSplitLast(s) ==
    LET lastEq == CHOOSE i \in 1..Len(s) : s[i] = "=" /\ \A j \in (i + 1)..Len(s) : s[j] # "=" IN
    IF HasEq(s)
    THEN [fn |-> "long", name |-> SubSeq(s, 1, lastEq - 1), last |-> FALSE, pos |-> 0,
          sup |-> "inline", val |-> Drop(s, lastEq), rest |-> <<>>]
    ELSE [fn |-> "long", name |-> s, last |-> FALSE, pos |-> 0, sup |-> "external",
          val |-> <<>>, rest |-> <<>>]

\* The call of `long` for a token "--" \o s.
LongCall(s) ==
    IF HasEq(s)
    THEN [fn |-> "long", name |-> SplitBefore(s), last |-> FALSE, pos |-> 0, sup |-> "inline",
          val |-> SplitAfter(s), rest |-> <<>>]
    ELSE [fn |-> "long", name |-> s, last |-> FALSE, pos |-> 0, sup |-> "external",
          val |-> <<>>, rest |-> <<>>]

\* ShortCall handing every character without inline value the external closure.
ShortCallAllExternal(s, i) ==
    IF i < Len(s) /\ s[i + 1] = "="
    THEN [fn |-> "short", name |-> <<s[i]>>, last |-> TRUE, pos |-> i, sup |-> "inline",
          val |-> SplitAfter(s), rest |-> <<>>]
    ELSE [fn |-> "short", name |-> <<s[i]>>, last |-> (i = Len(s)), pos |-> i,
          sup |-> "external", val |-> <<>>, rest |-> <<>>]

\* The call of `short` for the character at position i of the cluster s.
ShortCall(s, i) ==
    IF i < Len(s)
    THEN IF s[i + 1] = "="
         THEN [fn |-> "short", name |-> <<s[i]>>, last |-> TRUE, pos |-> i, sup |-> "inline",
               val |-> SplitAfter(s), rest |-> <<>>]
         ELSE [fn |-> "short", name |-> <<s[i]>>, last |-> FALSE, pos |-> i, sup |-> "mid",
               val |-> <<>>, rest |-> <<>>]
    ELSE [fn |-> "short", name |-> <<s[i]>>, last |-> TRUE, pos |-> i, sup |-> "external",
          val |-> <<>>, rest |-> <<>>]

\* The call of `argument` for the token t.
ArgumentCall(t) ==
    [fn |-> "argument", name |-> t, last |-> FALSE, pos |-> 0, sup |-> "arg",
     val |-> <<>>, rest |-> <<>>]

\* SubcommandCall handing over the command token again with the rest.
SubcommandCallWithCommand(t) ==
    [fn |-> "subcommand", name |-> t, last |-> FALSE, pos |-> 0, sup |-> "none",
     val |-> <<>>, rest |-> <<t>> \o PeekableRest(iter, peeked)]

\* The call of `subcommand` for the token t: the Peekable is moved into it.
SubcommandCall(t) ==
    [fn |-> "subcommand", name |-> t, last |-> FALSE, pos |-> 0, sup |-> "none",
     val |-> <<>>, rest |-> PeekableRest(iter, peeked)]

\* A call as recorded: with the token it is made for and that token's index.
Record(c, k, t) == c @@ [tok |-> k, arg |-> t]

\* Failed without the `?` on the call of `short` inside a cluster.
FailedExceptMidCluster(r, c) == ~r.ok /\ c.sup # "mid"

\* The `?` after a handler call: parse returns the handler's error.
Failed(r, c) == ~r.ok

\* Unused for a parse that never looks at `taken`.
UnusedNotChecked(c, tk) == FALSE

\* The test `if !taken` after a call that was given an inline value.
Unused(c, tk) == c.sup = "inline" /\ ~tk

\* Retry with the test of argument's result inverted.
RetryInverted(r) == ~r.sub

\* Whether parse retries the token as a subcommand: argument returned true.
Retry(r) == r.sub

\* NextPos for a cluster loop that does not advance.
NextPosStuck(i) == i

\* The position of the character the next peekable.next() of the cluster yields.
NextPos(i) == i + 1

\* ClusterContinues without the `break` after an inline value.
ClusterContinuesNoBreak(c, s, i) == i < Len(s)

\* Whether the cluster loop goes on to the character after position i.
ClusterContinues(c, s, i) == c.sup # "inline" /\ i < Len(s)

\* The closure given to `long` and `short` for an inline '=' value.
InlineNext(val) ==
    [ok |-> TRUE, val |-> val, err |-> NoErr, iter |-> iter, peeked |-> peeked,
     pulled |-> pulled, took |-> 0]

\* ExternalNext returning the peeked token without taking it from the iterator.
ExternalNextNoTake(missing) ==
    LET p == PeekablePeek(iter, peeked, pulled) IN
    IF p.peeked[1].some
    THEN IF StartsWith(p.peeked[1].v, <<"-">>)
         THEN [ok |-> FALSE, val |-> <<>>, err |-> ExpectedValueGotFlag(p.peeked[1].v),
               iter |-> p.iter, peeked |-> p.peeked, pulled |-> p.pulled, took |-> 0]
         ELSE [ok |-> TRUE, val |-> p.peeked[1].v, err |-> NoErr,
               iter |-> p.iter, peeked |-> p.peeked, pulled |-> p.pulled, took |-> 0]
    ELSE [ok |-> FALSE, val |-> <<>>, err |-> missing,
          iter |-> p.iter, peeked |-> p.peeked, pulled |-> p.pulled, took |-> 0]

\* The external closure taking the token before it tests it.
TakeThenTestNext(missing) ==
    LET n == PeekableNext(iter, peeked, pulled) IN
    IF n.item.some
    THEN IF StartsWith(n.item.v, <<"-">>)
         THEN [ok |-> FALSE, val |-> <<>>, err |-> ExpectedValueGotFlag(n.item.v),
               iter |-> n.iter, peeked |-> n.peeked, pulled |-> n.pulled, took |-> 1]
         ELSE [ok |-> TRUE, val |-> n.item.v, err |-> NoErr,
               iter |-> n.iter, peeked |-> n.peeked, pulled |-> n.pulled, took |-> 1]
    ELSE [ok |-> FALSE, val |-> <<>>, err |-> missing,
          iter |-> n.iter, peeked |-> n.peeked, pulled |-> n.pulled, took |-> 0]

\* The closure that takes the next token unless it looks like a flag.
ExternalNext(missing) ==
    LET p == PeekablePeek(iter, peeked, pulled) IN
    IF p.peeked[1].some
    THEN IF StartsWith(p.peeked[1].v, <<"-">>)
         THEN [ok |-> FALSE, val |-> <<>>, err |-> ExpectedValueGotFlag(p.peeked[1].v),
               iter |-> p.iter, peeked |-> p.peeked, pulled |-> p.pulled, took |-> 0]
         ELSE LET n == PeekableNext(p.iter, p.peeked, p.pulled) IN
              [ok |-> TRUE, val |-> n.item.v, err |-> NoErr,
               iter |-> n.iter, peeked |-> n.peeked, pulled |-> n.pulled, took |-> 1]
    ELSE [ok |-> FALSE, val |-> <<>>, err |-> missing,
          iter |-> p.iter, peeked |-> p.peeked, pulled |-> p.pulled, took |-> 0]

\* The closure given to a character that is not the last of its cluster.
MidNext(c) ==
    [ok |-> FALSE, val |-> <<>>, err |-> CannotTakeValueMidCluster(c),
     iter |-> iter, peeked |-> peeked, pulled |-> pulled, took |-> 0]

\* ArgumentNext with the flag test of the external closure.
ArgumentNextRejectsFlag == ExternalNext(NoArgumentNext)

\* The closure given to `argument`: args.next().ok_or("No argument next").
ArgumentNext ==
    LET n == PeekableNext(iter, peeked, pulled) IN
    IF n.item.some
    THEN [ok |-> TRUE, val |-> n.item.v, err |-> NoErr,
          iter |-> n.iter, peeked |-> n.peeked, pulled |-> n.pulled, took |-> 1]
    ELSE [ok |-> FALSE, val |-> <<>>, err |-> NoArgumentNext,
          iter |-> n.iter, peeked |-> n.peeked, pulled |-> n.pulled, took |-> 0]

\* The closure of the running call, by its kind.
NextFn(c) ==
    CASE c.sup = "inline" -> InlineNext(c.val)
      [] c.sup = "external" ->
            ExternalNext(IF c.fn = "long" THEN MissingValueLong
                         ELSE MissingValueShort(c.name[1]))
      [] c.sup = "mid" -> MidNext(c.name[1])
      [] c.sup = "arg" -> ArgumentNext

----------------------------------------------------------------------------
\* The state after construction: parse has been given its arguments.

Init ==
    /\ input \in Inputs
    /\ iter = input
    /\ peeked = <<>>
    /\ pulled = 0
    /\ consumed = 0
    /\ pc = "start"
    /\ arg = <<>>
    /\ ci = 0
    /\ taken = FALSE
    /\ calls = <<>>
    /\ sups = <<>>
    /\ rets = <<>>
    /\ result = [state |-> "none", err |-> NoErr]

\* parse returns Err(e).
Fail(e) ==
    /\ pc' = "failed"
    /\ result' = [state |-> "err", err |-> e]

\* The handler call c begins.
Enter(c) ==
    /\ pc' = "handler"
    /\ calls' = Append(calls, c)
    /\ taken' = FALSE

\* Start without the emptiness check.
StartNoCheck ==
    /\ pc = "start"
    /\ pc' = "scan"
    /\ UNCHANGED <<input, iter, peeked, pulled, consumed, arg, ci, taken,
                   calls, sups, rets, result>>

\* The emptiness check at the head of parse.
Start ==
    /\ pc = "start"
    /\ LET p == PeekablePeek(iter, peeked, pulled) IN
       /\ iter' = p.iter
       /\ peeked' = p.peeked
       /\ pulled' = p.pulled
       /\ IF p.peeked[1].some
          THEN pc' = "scan" /\ UNCHANGED result
          ELSE Fail(EmptyInput)
    /\ UNCHANGED <<input, consumed, arg, ci, taken, calls, sups, rets>>

\* One turn of `while let Some(arg) = args.next()`, up to the handler call.
NextArg ==
    /\ pc = "scan"
    /\ LET n == PeekableNext(iter, peeked, pulled) IN
       /\ iter' = n.iter
       /\ peeked' = n.peeked
       /\ pulled' = n.pulled
       /\ IF ~n.item.some
          THEN /\ pc' = "done"
               /\ result' = [state |-> "ok", err |-> NoErr]
               /\ UNCHANGED <<consumed, arg, ci, taken, calls>>
          ELSE LET t == n.item.v IN
               /\ consumed' = consumed + 1
               /\ arg' = t
               /\ UNCHANGED result
               /\ IF Classify(t) = "long"
                  THEN /\ Enter(Record(LongCall(Drop(t, 2)), consumed + 1, t))
                       /\ ci' = 0
                  ELSE IF Classify(t) = "short"
                  THEN IF Len(Drop(t, 1)) > 0
                       THEN /\ Enter(Record(ShortCall(Drop(t, 1), 1), consumed + 1, t))
                            /\ ci' = 1
                       ELSE /\ pc' = "scan"
                            /\ ci' = 0
                            /\ UNCHANGED <<taken, calls>>
                  ELSE /\ Enter(Record(ArgumentCall(t), consumed + 1, t))
                       /\ ci' = 0
    /\ UNCHANGED <<input, sups, rets>>

\* The running handler invokes the `next` closure it was given.
InvokeNext ==
    /\ pc = "handler"
    /\ Len(sups) < MaxPulls
    /\ LET c == Last(calls)
           r == NextFn(c) IN
       /\ iter' = r.iter
       /\ peeked' = r.peeked
       /\ pulled' = r.pulled
       /\ consumed' = consumed + r.took
       /\ taken' = (taken \/ c.sup = "inline")
       /\ sups' = Append(sups, [call |-> Len(calls), ok |-> r.ok, val |-> r.val,
                                err |-> r.err,
                                tok |-> IF r.took = 1 THEN consumed + 1 ELSE 0,
                                pre |-> PeekableRest(iter, peeked),
                                post |-> PeekableRest(r.iter, r.peeked)])
    /\ UNCHANGED <<input, pc, arg, ci, calls, rets, result>>

\* The errors the running handler can return: its own, or one its closure gave it.
HandlerErrors ==
    {HandlerError} \cup {sups[i].err : i \in {j \in 1..Len(sups) : sups[j].call = Len(calls) /\ ~sups[j].ok}}

Ret(ok, sub, e) == [ok |-> ok, sub |-> sub, err |-> e]

\* `long` returns; parse goes on to the test of `taken`.
LongReturn ==
    /\ pc = "handler"
    /\ Last(calls).fn = "long"
    /\ \E r \in {Ret(TRUE, FALSE, NoErr)} \cup {Ret(FALSE, FALSE, e) : e \in HandlerErrors} :
         /\ rets' = Append(rets, r)
         /\ IF Failed(r, Last(calls)) THEN Fail(r.err)
            ELSE IF Unused(Last(calls), taken)
            THEN Fail(UnusedInlineValue(Last(calls).name, Last(calls).val))
            ELSE pc' = "scan" /\ UNCHANGED result
    /\ UNCHANGED <<input, iter, peeked, pulled, consumed, arg, ci, taken, calls, sups>>

\* `short` returns; parse goes on with the cluster.
ShortReturn ==
    /\ pc = "handler"
    /\ Last(calls).fn = "short"
    /\ \E r \in {Ret(TRUE, FALSE, NoErr)} \cup {Ret(FALSE, FALSE, e) : e \in HandlerErrors} :
         /\ rets' = Append(rets, r)
         /\ LET s == Drop(arg, 1) IN
            IF Failed(r, Last(calls))
            THEN Fail(r.err) /\ UNCHANGED <<ci, taken, calls>>
            ELSE IF Unused(Last(calls), taken)
            THEN /\ Fail(UnusedInlineValue(s, Last(calls).val))
                 /\ UNCHANGED <<ci, taken, calls>>
            ELSE IF ClusterContinues(Last(calls), s, ci)
            THEN /\ Enter(Record(ShortCall(s, NextPos(ci)), Last(calls).tok, arg))
                 /\ ci' = NextPos(ci)
                 /\ UNCHANGED result
            ELSE /\ pc' = "scan"
                 /\ UNCHANGED <<ci, taken, calls, result>>
    /\ UNCHANGED <<input, iter, peeked, pulled, consumed, arg, sups>>

\* `argument` returns; on true parse calls `subcommand` with the rest.
ArgumentReturn ==
    /\ pc = "handler"
    /\ Last(calls).fn = "argument"
    /\ \E r \in {Ret(TRUE, FALSE, NoErr), Ret(TRUE, TRUE, NoErr)}
                 \cup {Ret(FALSE, FALSE, e) : e \in HandlerErrors} :
         /\ rets' = Append(rets, r)
         /\ IF Failed(r, Last(calls))
            THEN /\ Fail(r.err)
                 /\ UNCHANGED <<iter, peeked, calls>>
            ELSE IF Retry(r)
            THEN /\ pc' = "subcommand"
                 /\ calls' = Append(calls, Record(SubcommandCall(arg), Last(calls).tok, arg))
                 /\ iter' = <<>>
                 /\ peeked' = <<>>
                 /\ UNCHANGED result
            ELSE /\ pc' = "scan"
                 /\ UNCHANGED <<iter, peeked, calls, result>>
    /\ UNCHANGED <<input, pulled, consumed, arg, ci, taken, sups>>

\* `subcommand` returns; parse returns the parser or the error.
SubcommandReturn ==
    /\ pc = "subcommand"
    /\ \E r \in {Ret(TRUE, FALSE, NoErr), Ret(FALSE, FALSE, HandlerError)} :
         /\ rets' = Append(rets, r)
         /\ IF Failed(r, Last(calls))
            THEN Fail(r.err)
            ELSE pc' = "done" /\ result' = [state |-> "ok", err |-> NoErr]
    /\ UNCHANGED <<input, iter, peeked, pulled, consumed, arg, ci, taken, calls, sups>>

Next ==
    \/ Start
    \/ NextArg
    \/ InvokeNext
    \/ LongReturn
    \/ ShortReturn
    \/ ArgumentReturn
    \/ SubcommandReturn

Spec == Init /\ [][Next]_vars

TypeOK ==
    /\ pc \in {"start", "scan", "handler", "subcommand", "done", "failed"}
    /\ Len(peeked) <= 1
    /\ Len(sups) <= MaxPulls
    /\ Len(rets) <= Len(calls)

----------------------------------------------------------------------------
\* Properties of parse.

\* The handler calls of the outer loop and its cluster loop.
Dispatches == {k \in 1..Len(calls) : calls[k].fn # "subcommand"}

\* The dispatches made for the token at index j of the input.
DispatchesOf(j) == {k \in Dispatches : calls[k].tok = j}

\* The invocations of the `next` closure made during call k.
SupsOf(k) == {i \in 1..Len(sups) : sups[i].call = k}

\* The tokens the outer loop has taken itself (not handed out as a value).
ClassifiedIdx == {j \in 1..consumed : \A i \in 1..Len(sups) : sups[i].tok # j}

BeginsDashDash(t) == Len(t) >= 2 /\ t[1] = "-" /\ t[2] = "-"
BeginsDash(t) == Len(t) >= 1 /\ t[1] = "-"
\* A short cluster: one dash, then at least one character, the first not a dash.
IsCluster(t) == Len(t) >= 2 /\ t[1] = "-" /\ t[2] # "-"

Returned(k) == k <= Len(rets)

\* C1: for the empty token sequence parse returns the error "No arguments
\* given" and no handler method is called before it returns.
C1_EmptyInput ==
    (input = <<>> /\ pc # "start") =>
        /\ pc = "failed"
        /\ result = [state |-> "err", err |-> EmptyInput]
        /\ calls = <<>>
        /\ sups = <<>>

C1_Witness == input = <<>> /\ pc = "failed"

\* C2: when a handler call returns a failure, parse stops there: that call
\* is the last one made, and parse has returned exactly that failure.
C2_HandlerFailureAborts ==
    \A k \in 1..Len(rets) :
        ~rets[k].ok =>
            /\ k = Len(calls)
            /\ k = Len(rets)
            /\ pc = "failed"
            /\ result = [state |-> "err", err |-> rets[k].err]

\* a failure in the middle of a cluster, with a token still unread
C2_Witness ==
    /\ Len(rets) >= 1
    /\ ~Last(rets).ok
    /\ Last(calls).fn = "short"
    /\ ~Last(calls).last
    /\ consumed < Len(input)

\* C3: every token beginning with "--" that the outer loop takes is a long
\* flag: long is called exactly once for it (with the empty name for the
\* bare "--"), and neither short nor argument is called for it.
C3_DashDashIsLong ==
    \A j \in ClassifiedIdx :
        BeginsDashDash(input[j]) =>
            /\ Cardinality(DispatchesOf(j)) = 1
            /\ \A k \in DispatchesOf(j) :
                 /\ calls[k].fn = "long"
                 /\ calls[k].arg = input[j]
                 /\ (input[j] = <<"-", "-">> => calls[k].name = <<>>)

C3_Witness ==
    \E k \in 1..Len(calls) :
        calls[k].fn = "long" /\ calls[k].arg = <<"-", "-">> /\ Returned(k) /\ rets[k].ok

\* C4: a token that is exactly "-" is positional: argument is called once
\* with "-" as its text, and short is not called for it.
C4_BareDashIsPositional ==
    \A j \in ClassifiedIdx :
        input[j] = <<"-">> =>
            /\ Cardinality(DispatchesOf(j)) = 1
            /\ \A k \in DispatchesOf(j) :
                 calls[k].fn = "argument" /\ calls[k].name = <<"-">>

\* C5: for a token --<rest> whose <rest> contains '=', long is called with
\* the text before the first '=' as name, and every invocation of its
\* closure returns the text after the first '=' and takes no token.
C5_LongInlineValue ==
    \A k \in 1..Len(calls) :
        (calls[k].fn = "long" /\ HasEq(Drop(calls[k].arg, 2))) =>
            /\ ~HasEq(calls[k].name)
            /\ \E v \in {Drop(calls[k].arg, n) : n \in 0..Len(calls[k].arg)} :
                 /\ calls[k].arg = <<"-", "-">> \o calls[k].name \o <<"=">> \o v
                 /\ \A i \in SupsOf(k) :
                      /\ sups[i].ok
                      /\ sups[i].val = v
                      /\ sups[i].tok = 0
                      /\ sups[i].post = sups[i].pre

\* a value with a further '=' in it, handed out twice
C5_Witness ==
    \E k \in 1..Len(calls) :
        /\ calls[k].fn = "long"
        /\ HasEq(calls[k].val)
        /\ Cardinality(SupsOf(k)) >= 2

\* Whether call k was given an inline '=' value, by the shape of its token.
HasInlineValue(k) ==
    \/ calls[k].fn = "long" /\ HasEq(Drop(calls[k].arg, 2))
    \/ /\ calls[k].fn = "short"
       /\ calls[k].pos + 2 <= Len(calls[k].arg)
       /\ calls[k].arg[calls[k].pos + 2] = "="

UnusedKind == "Flag was given argument without using it"

\* C6: after a successful call of long or short that was given an inline
\* value, parse fails with the unused-value error if the closure was never
\* invoked, and otherwise goes on with the next token.
C6_UnusedInlineValue ==
    \A k \in 1..Len(rets) :
        (HasInlineValue(k) /\ rets[k].ok) =>
            IF SupsOf(k) = {}
            THEN /\ k = Len(calls)
                 /\ pc = "failed"
                 /\ result.state = "err"
                 /\ result.err.kind = UnusedKind
            ELSE /\ k = Len(calls) => (pc \in {"scan", "done"} /\ result.state # "err")
                 /\ k < Len(calls) => calls[k + 1].tok > calls[k].tok

C6_Witness ==
    /\ \E k \in 1..Len(rets) :
         calls[k].fn = "short" /\ HasInlineValue(k) /\ rets[k].ok /\ SupsOf(k) = {}
    /\ pc = "failed"

\* the other branch: a used inline value, and a later token dispatched
C6_WitnessUsed ==
    \E k \in 1..Len(rets) :
        HasInlineValue(k) /\ rets[k].ok /\ SupsOf(k) # {} /\ k < Len(calls)

\* The external-token rule for invocation i, `missing` being its error when
\* no token is left.
ExternalRule(i, missing) ==
    LET r == sups[i] IN
    IF r.pre = <<>>
    THEN ~r.ok /\ r.err = missing /\ r.post = <<>> /\ r.tok = 0
    ELSE IF BeginsDash(Head(r.pre))
    THEN /\ ~r.ok
         /\ r.err = ExpectedValueGotFlag(Head(r.pre))
         /\ r.post = r.pre
         /\ r.tok = 0
    ELSE /\ r.ok
         /\ r.val = Head(r.pre)
         /\ r.post = Tail(r.pre)
         /\ r.tok \in 1..Len(input)
         /\ input[r.tok] = r.val
         \* the value is never classified, and classification resumes after it
         /\ \A k \in 1..Len(calls) : calls[k].tok # r.tok
         /\ \A k \in 1..Len(calls) : k > r.call => calls[k].tok > r.tok
         /\ r.tok \notin ClassifiedIdx

\* Whether call k was given the external-token closure, by its shape.
TakesExternal(k) ==
    \/ calls[k].fn = "long" /\ ~HasEq(calls[k].arg)
    \/ calls[k].fn = "short" /\ calls[k].pos + 1 = Len(calls[k].arg)

\* C7: each invocation of the closure given to long (no '=') and to the last
\* character of a cluster fails with the missing-value error if no token is
\* left, fails with "Expected value, got flag" if the next token starts with
\* '-', and otherwise returns the next token and consumes it, so that the
\* outer loop goes on after the value and never classifies it.
C7_ExternalSupplier ==
    \A i \in 1..Len(sups) :
        LET k == sups[i].call IN
        TakesExternal(k) =>
            ExternalRule(i, IF calls[k].fn = "long" THEN MissingValueLong
                            ELSE MissingValueShort(calls[k].name[1]))

\* a value was taken and the token after it has been dispatched
C7_Witness ==
    \E i \in 1..Len(sups) :
        /\ TakesExternal(sups[i].call)
        /\ sups[i].ok
        /\ \E k \in 1..Len(calls) : calls[k].tok = sups[i].tok + 1

\* C8: for a cluster -c1..cn without '=' short is called for c1..cn in
\* order, is_last being true for cn only; while the calls succeed none is
\* left out and none is added; the closure of a character that is not the
\* last always fails with "Could not get argument", that of cn follows the
\* external-token rule.
C8_ClusterWithoutEq ==
    \A j \in ClassifiedIdx :
        (IsCluster(input[j]) /\ ~HasEq(input[j])) =>
            LET s == Drop(input[j], 1)
                n == Len(s) IN
            /\ DispatchesOf(j) # {}
            /\ \A k \in DispatchesOf(j) :
                 /\ calls[k].fn = "short"
                 /\ calls[k].arg = input[j]
                 /\ calls[k].pos \in 1..n
                 /\ calls[k].name = <<s[calls[k].pos]>>
                 /\ calls[k].last = (calls[k].pos = n)
                 /\ calls[k].pos = (IF k - 1 \in DispatchesOf(j) THEN calls[k - 1].pos + 1 ELSE 1)
                 /\ (k - 1 \in DispatchesOf(j)) => (Returned(k - 1) /\ rets[k - 1].ok)
                 /\ (Returned(k) /\ rets[k].ok /\ calls[k].pos < n) => k + 1 \in DispatchesOf(j)
                 /\ calls[k].pos = n => k + 1 \notin DispatchesOf(j)
                 /\ \A i \in SupsOf(k) :
                      IF calls[k].pos < n
                      THEN /\ ~sups[i].ok
                           /\ sups[i].err = CannotTakeValueMidCluster(s[calls[k].pos])
                           /\ sups[i].post = sups[i].pre
                           /\ sups[i].tok = 0
                      ELSE ExternalRule(i, MissingValueShort(s[n]))

\* a cluster of three characters dispatched to its end, each closure invoked
C8_Witness ==
    \E k \in 1..Len(rets) :
        /\ calls[k].fn = "short"
        /\ ~HasEq(calls[k].arg)
        /\ calls[k].pos = 3
        /\ calls[k].last
        /\ rets[k].ok
        /\ SupsOf(k - 1) # {}

\* C9: for a cluster -c1..ck=<v> (k >= 1, no '=' among c1..ck) short is
\* called for c1..c(k-1) with is_last false and a closure that fails, then
\* for ck with is_last true and a closure that yields <v>; no call of short
\* is made for the '=' or for anything after it.
C9_ClusterWithEq ==
    \A j \in ClassifiedIdx :
        (IsCluster(input[j]) /\ HasEq(input[j]) /\ input[j][2] # "=") =>
            LET s == Drop(input[j], 1)
                kk == (CHOOSE e \in 1..Len(s) : s[e] = "=" /\ \A m \in 1..(e - 1) : s[m] # "=") - 1
                v == Drop(s, kk + 1) IN
            /\ DispatchesOf(j) # {}
            /\ \A k \in DispatchesOf(j) :
                 /\ calls[k].fn = "short"
                 /\ calls[k].pos \in 1..kk
                 /\ calls[k].name = <<s[calls[k].pos]>>
                 /\ calls[k].last = (calls[k].pos = kk)
                 /\ calls[k].pos = (IF k - 1 \in DispatchesOf(j) THEN calls[k - 1].pos + 1 ELSE 1)
                 /\ (Returned(k) /\ rets[k].ok /\ calls[k].pos < kk) => k + 1 \in DispatchesOf(j)
                 /\ calls[k].pos = kk => k + 1 \notin DispatchesOf(j)
                 /\ \A i \in SupsOf(k) :
                      IF calls[k].pos < kk
                      THEN ~sups[i].ok /\ sups[i].err = CannotTakeValueMidCluster(s[calls[k].pos])
                      ELSE sups[i].ok /\ sups[i].val = v /\ sups[i].tok = 0

\* -aa=a: the second character got the value, and parse went past the token
C9_Witness ==
    \E k \in 1..Len(rets) :
        /\ calls[k].fn = "short"
        /\ HasEq(calls[k].arg)
        /\ calls[k].pos = 2
        /\ calls[k].last
        /\ rets[k].ok
        /\ \E i \in SupsOf(k) : sups[i].val # <<>>
        /\ pc \in {"scan", "done"}

\* C10 as stated: the closure given to argument behaves like the
\* external-token closure: it fails when no token is left, fails with
\* "Expected value, got flag" without consuming when the next token starts
\* with '-', and otherwise consumes and returns the next token.
C10_ArgumentSupplierLikeExternal ==
    \A i \in 1..Len(sups) :
        calls[sups[i].call].fn = "argument" => ExternalRule(i, NoArgumentNext)

\* C10 as amended: the closure given to argument fails with "No argument
\* next" when no token is left, and otherwise consumes and returns the next
\* token whatever it is, a token that starts with '-' included.
C10_ArgumentSupplierTakesAny ==
    \A i \in 1..Len(sups) :
        calls[sups[i].call].fn = "argument" =>
            LET r == sups[i] IN
            IF r.pre = <<>>
            THEN ~r.ok /\ r.err = NoArgumentNext /\ r.post = <<>> /\ r.tok = 0
            ELSE /\ r.ok
                 /\ r.val = Head(r.pre)
                 /\ r.post = Tail(r.pre)
                 /\ r.tok \in 1..Len(input)
                 /\ input[r.tok] = r.val
                 /\ \A k \in 1..Len(calls) : calls[k].tok # r.tok

\* argument was handed a token that starts with '-'
C10_Witness ==
    \E i \in 1..Len(sups) :
        /\ calls[sups[i].call].fn = "argument"
        /\ sups[i].ok
        /\ BeginsDash(sups[i].val)

\* C11: when argument returns true for a token, subcommand is called exactly
\* once, with that token as the command, no call of long, short or argument
\* follows, and parse returns Ok if subcommand succeeds and subcommand's
\* failure if it fails.
C11_SubcommandDispatch ==
    /\ \A k \in 1..Len(rets) :
         (calls[k].fn = "argument" /\ rets[k].ok /\ rets[k].sub) =>
             /\ Len(calls) = k + 1
             /\ calls[k + 1].fn = "subcommand"
             /\ calls[k + 1].name = calls[k].arg
             /\ calls[k + 1].name = input[calls[k].tok]
             /\ IF Returned(k + 1)
                THEN IF rets[k + 1].ok
                     THEN pc = "done" /\ result.state = "ok"
                     ELSE pc = "failed" /\ result = [state |-> "err", err |-> rets[k + 1].err]
                ELSE pc = "subcommand" /\ result.state = "none"
    /\ \A k \in 1..Len(calls) :
         calls[k].fn = "subcommand" =>
             k > 1 /\ calls[k - 1].fn = "argument" /\ rets[k - 1].ok /\ rets[k - 1].sub

\* subcommand succeeded with tokens still undispatched behind it
C11_Witness ==
    /\ pc = "done"
    /\ Len(calls) >= 2
    /\ Last(calls).fn = "subcommand"
    /\ Last(calls).tok < Len(input)

\* C12: the tokens handed to subcommand are exactly the part of the input not
\* consumed so far, in order: without the command token and without the tokens
\* argument pulled through its closure.
C12_SubcommandRest ==
    \A k \in 1..Len(calls) :
        calls[k].fn = "subcommand" =>
            LET pulledByArg == {i \in SupsOf(k - 1) : sups[i].ok} IN
            /\ calls[k].rest = Drop(input, calls[k].tok + Cardinality(pulledByArg))
            /\ calls[k].rest = Drop(input, consumed)

\* argument pulled one token, and one more was left for subcommand
C12_Witness ==
    \E k \in 1..Len(calls) :
        /\ calls[k].fn = "subcommand"
        /\ calls[k].rest # <<>>
        /\ \E i \in SupsOf(k - 1) : sups[i].ok

AllPositional == \A j \in 1..Len(input) : ~BeginsDash(input[j])

\* C13 as stated: when every token is positional, argument is called once
\* per token, in input order, and long and short are never called.
C13_ArgumentPerToken ==
    (AllPositional /\ pc = "done") =>
        /\ Len(calls) = Len(input)
        /\ \A k \in 1..Len(calls) :
             calls[k].fn = "argument" /\ calls[k].tok = k /\ calls[k].name = input[k]

\* C13 as amended: when every token is positional, long and short are never
\* called, and argument is called once, in input order, for each token the
\* outer loop takes: every token consumed so far was either dispatched to
\* argument exactly once or pulled by argument through its closure; if no
\* closure was invoked and argument never returned true or failed, a
\* finished parse has called argument once per token of the input.
C13_ArgumentPerTakenToken ==
    AllPositional =>
        /\ \A k \in 1..Len(calls) : calls[k].fn \in {"argument", "subcommand"}
        /\ \A k \in Dispatches : calls[k].name = input[calls[k].tok]
        /\ \A k \in Dispatches : \A m \in Dispatches : k < m => calls[k].tok < calls[m].tok
        /\ \A j \in 1..consumed :
             IF j \in ClassifiedIdx
             THEN Cardinality(DispatchesOf(j)) = 1
             ELSE DispatchesOf(j) = {}
        /\ (pc = "done" /\ sups = <<>> /\ \A k \in 1..Len(rets) : rets[k].ok /\ ~rets[k].sub) =>
             /\ Len(calls) = Len(input)
             /\ \A k \in 1..Len(calls) : calls[k].fn = "argument" /\ calls[k].tok = k

\* three positional tokens, the second pulled as a value, the third dispatched
C13_Witness ==
    /\ AllPositional
    /\ pc = "done"
    /\ Len(input) = 3
    /\ Len(calls) = 2
    /\ calls[2].fn = "argument"
    /\ calls[2].tok = 3

\* C14: the dispatcher never holds more than one token of lookahead: the
\* tokens pulled from the source exceed the tokens consumed by at most one,
\* and by one exactly when a token sits in the Peekable's buffer.
C14_OneTokenLookahead ==
    /\ pulled - consumed \in {0, 1}
    /\ pulled <= Len(input)
    /\ (pulled - consumed = 1) <=>
         (peeked # <<>> /\ peeked[1].some)

\* a handler is running while a rejected flag token sits in the buffer
C14_Witness ==
    /\ pc = "handler"
    /\ pulled = consumed + 1
    /\ \E i \in 1..Len(sups) : ~sups[i].ok /\ sups[i].pre # <<>>

\* C16: the value the inline closure of a cluster character c returns is the
\* text after the '=' that immediately follows c in the token, also when a
\* '=' occurs earlier in the cluster.
C16_ShortInlineValueFollowsChar ==
    \A k \in 1..Len(calls) :
        (calls[k].fn = "short" /\ HasInlineValue(k)) =>
            /\ calls[k].val = Drop(calls[k].arg, calls[k].pos + 2)
            /\ \A i \in SupsOf(k) : sups[i].val = Drop(calls[k].arg, calls[k].pos + 2)

\* The index in the input of the token that invocation i looked at.
LookedAt(i) ==
    calls[sups[i].call].tok
        + Cardinality({m \in SupsOf(sups[i].call) : m < i /\ sups[m].ok}) + 1

\* C17: an invocation of a closure that fails consumes nothing and leaves
\* the token stream as it was; a token rejected as a value is never handed
\* out as a value and, if the handler returns Ok, is the next token the
\* outer loop takes.
C17_FailedSupplierKeepsStream ==
    \A i \in 1..Len(sups) :
        ~sups[i].ok =>
            LET k == sups[i].call
                j == LookedAt(i) IN
            /\ sups[i].post = sups[i].pre
            /\ sups[i].tok = 0
            /\ sups[i].err.kind = "Expected value, got flag" =>
                 /\ j \in 1..Len(input)
                 /\ input[j] = Head(sups[i].pre)
                 /\ sups[i].err.a = input[j]
                 /\ \A m \in 1..Len(sups) : sups[m].tok # j
                 /\ consumed >= j => (Returned(k) /\ rets[k].ok /\ j \in ClassifiedIdx)
                 /\ (Returned(k) /\ rets[k].ok /\ k < Len(calls)) =>
                      /\ calls[k + 1].tok >= j
                      /\ input[j] # <<"-">> =>
                           (calls[k + 1].tok = j /\ calls[k + 1].arg = Head(sups[i].pre))

\* a flag was rejected as a value, the handler went on, the flag was dispatched
C17_Witness ==
    \E i \in 1..Len(sups) :
        /\ ~sups[i].ok
        /\ sups[i].err.kind = "Expected value, got flag"
        /\ sups[i].call < Len(calls)
        /\ calls[sups[i].call + 1].arg = Head(sups[i].pre)

\* C18: tokens are consumed left to right and each at most once: what is
\* left of the stream is the input after the tokens consumed; every call is
\* made for the token at its index, calls follow the input order and one
\* token is dispatched by one turn of the loop only; a token handed out as a
\* value is never dispatched nor handed out again; subcommand gets the rest.
C18_ConsumedOnceInOrder ==
    /\ consumed <= Len(input)
    /\ pc \in {"start", "scan", "handler"} => PeekableRest(iter, peeked) = Drop(input, consumed)
    /\ \A k \in 1..Len(calls) :
         /\ calls[k].tok \in 1..consumed
         /\ calls[k].arg = input[calls[k].tok]
         /\ calls[k].fn = "subcommand" => calls[k].rest = Drop(input, consumed)
         /\ k > 1 =>
              \/ calls[k].tok > calls[k - 1].tok
              \/ /\ calls[k].tok = calls[k - 1].tok
                 /\ \/ calls[k].fn = "subcommand" /\ calls[k - 1].fn = "argument"
                    \/ /\ calls[k].fn = "short"
                       /\ calls[k - 1].fn = "short"
                       /\ calls[k].pos = calls[k - 1].pos + 1
    /\ \A i \in 1..Len(sups) :
         sups[i].tok # 0 =>
             /\ sups[i].tok \in 1..consumed
             /\ sups[i].val = input[sups[i].tok]
             /\ sups[i].tok > calls[sups[i].call].tok
             /\ \A k \in 1..Len(calls) : calls[k].tok # sups[i].tok
             /\ \A k \in Dispatches : k > sups[i].call => calls[k].tok > sups[i].tok
             /\ \A m \in 1..Len(sups) : m < i => sups[m].tok < sups[i].tok

\* one token dispatched, one handed out as a value, one left to subcommand
C18_Witness ==
    /\ Len(calls) >= 2
    /\ Last(calls).fn = "subcommand"
    /\ Last(calls).rest # <<>>
    /\ \E i \in 1..Len(sups) : sups[i].tok = 2
    /\ calls[1].fn = "long"

Terminal == pc \in {"done", "failed"}

\* What parse has left to do, most significant first: tokens to consume,
\* characters of the running cluster, closure invocations the handlers still
\* make, and the place in the loop.
Measure ==
    <<Len(input) - consumed,
      IF pc = "handler" /\ Last(calls).fn = "short" THEN Len(arg) - 1 - ci ELSE 0,
      MaxPulls - Len(sups),
      CASE pc = "start" -> 5
        [] pc = "handler" -> 4
        [] pc = "scan" -> 3
        [] pc = "subcommand" -> 2
        [] pc = "done" -> 1
        [] pc = "failed" -> 0>>

\* a is before b in the lexicographic order
LexLess(a, b) ==
    \E n \in 1..Len(a) : a[n] < b[n] /\ \A m \in 1..(n - 1) : a[m] = b[m]

\* C19: parse terminates: until it has returned it can always take a step,
\* and every step brings it closer to returning; a turn of the outer loop
\* that finds a token consumes it, and a turn of the cluster loop advances by
\* one character.
C19_Terminates ==
    /\ [](~Terminal => ENABLED Next)
    /\ [](\A n \in 1..4 : Measure[n] >= 0)
    /\ [][/\ LexLess(Measure', Measure)
          /\ (pc = "scan" /\ pc' # "done") => consumed' = consumed + 1
          /\ (pc = "scan" /\ pc' = "done") => (consumed = Len(input) /\ consumed' = consumed)
          /\ (pc = "handler" /\ pc' = "handler" /\ Len(calls') > Len(calls)) =>
                (ci' = ci + 1 /\ ci' <= Len(arg) - 1)]_vars

\* parse returned Ok after a cluster of three characters and a further token
C19_Witness ==
    /\ pc = "done"
    /\ Len(input) >= 2
    /\ \E k \in 1..Len(calls) : calls[k].fn = "short" /\ calls[k].pos = 3

====
